---- MODULE Spec2Model ----
(***************************************************************************)
(* Model of the image compositing engine of dbc-bot-2                      *)
(* (src/images/generation/model.py): raster buffers on a heap, Components  *)
(* that own a buffer and a position, the Background canvas with its paint  *)
(* order, and the text layout of Component.write / BaseImage.write.        *)
(***************************************************************************)
EXTENDS Integers, Sequences, FiniteSets, TLC

VARIABLES
    heap,       \* raster buffers by identity: Seq of Buffer, id = index
    comps,      \* Component objects by identity: Seq of [img, x, y, name, font]
    image,      \* Background.image: id of the base raster
    width,      \* Background.width
    height,     \* Background.height
    overlays,   \* Background.overlays: Seq of Component ids, paint order
    final,      \* the raster returned by the last fabricate(): id, or NoBuf
    font,       \* BaseImage.font: the size of the current font handle
    last,       \* history: the last positioning / canvas operation
    lastWrite,  \* history: what the last write call measured and drew
    out,        \* the outcome of the last constructor / resize / bytes call
    cards,      \* card objects (Match, Result, Profile, BattleLog) by identity
    frames,     \* the coroutine of each render request: inputs, position, result
    components  \* BaseImage.components: the Components waiting for build()

vars == <<heap, comps, image, width, height, overlays, final, font, last, lastWrite,
          out, cards, frames, components>>

requestVars == <<out, cards, frames>>

canvasVars == <<image, width, height, overlays>>

----------------------------------------------------------------------------
(* Bounds of the model *)

MaxComps == 2        \* Components constructed
MaxOverlays == 3     \* add_overlay calls
CanvasW == 2         \* width of the base raster
MaxWrites == 2       \* text draws on one raster
MaxCoord == 2        \* |x|, |y| of a Component in the layout specification
MaxParent == 5       \* largest parent width / height passed to set_center_x / _y

----------------------------------------------------------------------------
(* Raster buffers (PIL Image.Image)                                        *)
(* A buffer has a mode, the info["transparency"] entry, a size, one sample *)
(* <<v, a>> per pixel (v: colour value or palette index, a: alpha, 255 in  *)
(* the modes without an alpha band) and ink, the number of text draws made *)
(* on it.                                                                  *)

NoBuf == 0
NoTransparency == -1     \* info has no "transparency" key

NoFont == -1              \* a Component has no font attribute until _set_font
NoSize == 0               \* font_size=None
DefaultFontSize == 30     \* the size _revert_font / revert_font load
StrokeWidthNone == -1     \* stroke_width=None

Coords(w, h) == (0 .. w - 1) \X (0 .. h - 1)

Buffer(mode, transparency, w, h, px) ==
    [mode |-> mode, transparency |-> transparency, w |-> w, h |-> h,
     px |-> px, ink |-> 0]

\* Image.new(mode, (w, h), color)
NewImage(mode, w, h, color) ==
    Buffer(mode, NoTransparency, w, h, [p \in Coords(w, h) |-> color])

\* The rasters the asset provider hands out (icons, layers, badges).
OpaqueIcon == Buffer("RGBA", NoTransparency, 2, 1,
                     (<<0, 0>> :> <<10, 255>>) @@ (<<1, 0>> :> <<20, 255>>))
GlassIcon == Buffer("RGBA", NoTransparency, 2, 1,
                    (<<0, 0>> :> <<200, 128>>) @@ (<<1, 0>> :> <<90, 255>>))
PaletteIcon == Buffer("P", 1, 2, 1,
                      (<<0, 0>> :> <<1, 255>>) @@ (<<1, 0>> :> <<2, 255>>))
GreyAlphaIcon == Buffer("LA", NoTransparency, 1, 2,
                        (<<0, 0>> :> <<50, 128>>) @@ (<<0, 1>> :> <<60, 255>>))

Sources == <<OpaqueIcon, GlassIcon, PaletteIcon, GreyAlphaIcon>>

BaseRaster == NewImage("RGBA", CanvasW, 1, <<130, 255>>)

\* the slot of the raster fabricate() returns, empty until the first call
NoRaster == NewImage("RGBA", 0, 0, <<0, 0>>)

Positions == {<<-1, 0>>, <<0, 0>>}

----------------------------------------------------------------------------
(* Component *)

\* Image.copy(): the identity of the raster it returns, a new object with the
\* content of id (CopyAlias: the same object, were no copy made)
CopyAlias(id, fresh) == id
Copy(id, fresh) == fresh

\* Component.has_transparency
HasTransparency(buf) ==
    IF buf.transparency # NoTransparency THEN TRUE
    ELSE IF buf.mode = "P"
         THEN LET transparent == -1
              IN \E p \in DOMAIN buf.px : buf.px[p][1] = transparent
         ELSE IF buf.mode = "RGBA"
              THEN \E p \in DOMAIN buf.px : buf.px[p][2] < 255
              ELSE FALSE

\* Image.convert("RGBA"): palette and colour-key transparency become alpha 0.
ConvertRGBA(buf) ==
    [buf EXCEPT !.mode = "RGBA", !.transparency = NoTransparency,
        !.px = [p \in DOMAIN buf.px |->
                  IF buf.mode \in {"RGBA", "LA"} THEN buf.px[p]
                  ELSE IF buf.transparency # NoTransparency
                          /\ buf.px[p][1] = buf.transparency
                       THEN <<buf.px[p][1], 0>>
                       ELSE <<buf.px[p][1], 255>>]]

----------------------------------------------------------------------------
(* Image.paste *)

DIV255(a) == LET tmp == a + 128 IN ((tmp \div 256) + tmp) \div 256

BLEND(mask, in1, in2) == DIV255(in1 * (255 - mask) + in2 * mask)

\* one destination pixel of a masked paste: every band is blended
BlendPixel(mask, dst, src) ==
    IF mask = 0 THEN dst
    ELSE IF mask = 255 THEN src
    ELSE <<BLEND(mask, dst[1], src[1]), BLEND(mask, dst[2], src[2])>>

\* the source pixel that lands on destination pixel p, when the box covers it
Covers(src, x, y, p) ==
    /\ p[1] - x \in 0 .. src.w - 1
    /\ p[2] - y \in 0 .. src.h - 1

\* dst.paste(src, (x, y)): pixels outside dst are clipped
PastePlain(dst, src, x, y) ==
    LET s == ConvertRGBA(src)
    IN [dst EXCEPT !.px = [p \in DOMAIN dst.px |->
            IF Covers(s, x, y, p) THEN s.px[<<p[1] - x, p[2] - y>>]
            ELSE dst.px[p]]]

\* dst.paste(src, (x, y), alpha) with alpha = src.split()[3]
PasteMasked(dst, src, x, y) ==
    [dst EXCEPT !.px = [p \in DOMAIN dst.px |->
        IF Covers(src, x, y, p)
        THEN LET s == src.px[<<p[1] - x, p[2] - y>>]
             IN BlendPixel(s[2], dst.px[p], s)
        ELSE dst.px[p]]]

----------------------------------------------------------------------------
(* Background *)

\* one iteration of the loop of fabricate
PasteOverlayAlwaysMasked(dst, top, x, y) == PasteMasked(dst, ConvertRGBA(top), x, y)
PasteOverlay(dst, top, x, y) ==
    IF HasTransparency(top)
    THEN LET rgba == IF top.mode # "RGBA" THEN ConvertRGBA(top) ELSE top
         IN PasteMasked(dst, rgba, x, y)
    ELSE PastePlain(dst, top, x, y)

\* the order in which fabricate visits self.overlays
PaintOrderReversed(ovs) == [i \in 1 .. Len(ovs) |-> ovs[Len(ovs) + 1 - i]]
PaintOrder(ovs) == ovs

RECURSIVE PaintAll(_, _, _, _)
PaintAll(h, cs, dst, ovs) ==
    IF ovs = <<>> THEN dst
    ELSE LET c == cs[Head(ovs)]
         IN PaintAll(h, cs, PasteOverlay(dst, h[c.img], c.x, c.y), Tail(ovs))

\* Background.fabricate: the raster it returns
Fabricate(h, cs, base, ovs) == PaintAll(h, cs, h[base], PaintOrder(ovs))

----------------------------------------------------------------------------
(* State after construction: the asset rasters and a Background built from *)
(* a base image with no explicit size, with no overlays yet.               *)

NoOp == [op |-> "init", who |-> 0, arg |-> 0, other |-> 0, rep |-> FALSE]

NoBox == <<>>             \* textbox_pos=None / textbox_pos omitted

NoWrite ==
    [target |-> "none", who |-> 0, text |-> 0, font_size |-> NoSize,
     textbox_pos |-> NoBox, align |-> "left", stroke |-> "None",
     box |-> NoBox, measureFont |-> NoFont, tw |-> 0, th |-> 0,
     x |-> 0, y |-> 0, drawFont |-> NoFont, strokeWidth |-> 0,
     done |-> FALSE, raised |-> "", nth |-> 0,
     prev |-> <<"none", 0, NoSize, FALSE>>]

NoDim == 0                \* width=None / height=None

\* no constructor, resize or bytes call made yet
NoOut ==
    [op |-> "none", bg |-> NoBuf, width |-> NoDim, height |-> NoDim,
     ow |-> 0, oh |-> 0, raised |-> "",
     value |-> [type |-> "none", png |-> NoRaster]]

Requests == {1, 2}

NoError == <<>>           \* error = None

\* a card object before __init__ has assigned anything: has is the set of
\* assets it holds loaded, pi1 / pi2 the player icons, components and
\* overlays the variable names of the Components in list order with the
\* index of their panel; of a battle log, width and height are the size
\* the canvas was built with, winner / eliminated the TempPlayers and
\* panels what each panel was given by preset
NoPlayer == [discord_name |-> "none", icon |-> "none"]

NoCard ==
    [card |-> "none", error |-> NoError, has |-> {}, pi1 |-> "unset",
     pi2 |-> "unset", bg |-> "none", components |-> <<>>, overlays |-> <<>>,
     final |-> "none", width |-> 0, height |-> 0, winner |-> NoPlayer,
     eliminated |-> NoPlayer, panels |-> <<>>]

Pending == [kind |-> "pending", raised |-> "", error |-> NoError, data |-> <<>>]

\* a request not yet received; overlap tells that a step of it was taken
\* while another request was suspended
NoFrame ==
    [card |-> "none", fail |-> "none", logs |-> <<>>, self |-> 0, pc |-> "idle",
     fetched |-> <<>>, result |-> Pending, overlap |-> FALSE]

NoCards == [i \in Requests |-> NoCard]

NoFrames == [r \in Requests |-> NoFrame]

\* the call before this one: its target, font_size and whether it completed
Prev == <<lastWrite.target, lastWrite.who, lastWrite.font_size, lastWrite.done>>

BaseId == Len(Sources) + 1

FinalId == BaseId + 1

Assets == Append(Sources, BaseRaster) \o <<NoRaster>>

Init ==
    /\ heap = Assets
    /\ comps = <<>>
    /\ image = BaseId
    /\ width = heap[image].w
    /\ height = heap[image].h
    /\ overlays = <<>>
    /\ final = NoBuf
    /\ font = DefaultFontSize
    /\ last = NoOp
    /\ lastWrite = NoWrite
    /\ out = NoOut
    /\ cards = NoCards
    /\ frames = NoFrames
    /\ components = <<>>

\* the operation just performed; rep tells that it repeats the previous one
Op(op, who, arg, other) ==
    LET o == [op |-> op, who |-> who, arg |-> arg, other |-> other, rep |-> FALSE]
    IN [o EXCEPT !.rep = (o = [last EXCEPT !.rep = FALSE])]

\* Component.__init__(img, pos, name)
NewComponent(src, pos) ==
    /\ Len(comps) < MaxComps
    /\ LET fresh == Len(heap) + 1
           own == Copy(src, fresh)
       IN /\ heap' = IF own = fresh THEN Append(heap, heap[src]) ELSE heap
          /\ comps' = Append(comps, [img |-> own, x |-> pos[1], y |-> pos[2],
                                     name |-> "untitled", font |-> NoFont])
    /\ last' = Op("new", Len(comps) + 1, src, 0)
    /\ UNCHANGED <<canvasVars, final, font, lastWrite, requestVars, components>>

\* Background.add_overlay(overlay)
AddOverlay(c) ==
    /\ Len(overlays) < MaxOverlays
    /\ overlays' = Append(overlays, c)
    /\ last' = Op("add_overlay", c, 0, 0)
    /\ UNCHANGED <<heap, comps, image, width, height, final, font, lastWrite,
                   requestVars, components>>

\* Background.fabricate(): the returned raster is kept in final, in the slot
\* of the raster of the call before, which is dropped.
FabricateCall ==
    /\ LET final_image == Copy(image, FinalId)
           result == Fabricate(heap, comps, image, overlays)
       IN /\ heap' = [heap EXCEPT ![final_image] = result]
          /\ final' = final_image
    /\ last' = Op("fabricate", 0, 0, 0)
    /\ UNCHANGED <<comps, canvasVars, font, lastWrite, requestVars, components>>

Next ==
    \/ \E src \in 1 .. Len(Sources), pos \in Positions : NewComponent(src, pos)
    \/ \E c \in 1 .. Len(comps) : AddOverlay(c)
    \/ FabricateCall

Spec == Init /\ [][Next]_vars

----------------------------------------------------------------------------
(* Component positioning *)

Width(c) == heap[c.img].w

Height(c) == heap[c.img].h

\* (parent - size) // 2, Python floor division
CenterOffsetHalves(parent, size) == (parent \div 2) - (size \div 2)
CenterOffset(parent, size) == (parent - size) \div 2

\* the width / height of the imaginary parent whose middle is the middle of
\* the dependent component
RelativeParentNotDoubled(pos, size) == pos + size
RelativeParent(pos, size) == 2 * pos + size

InRange(v) == v \in -MaxCoord .. MaxCoord

ParentSizes == 0 .. MaxParent

Coordinates == {-2, 1}

\* Component.set_x
SetX(c, x) ==
    /\ comps' = [comps EXCEPT ![c].x = x]
    /\ last' = Op("set_x", c, x, 0)
    /\ UNCHANGED <<heap, canvasVars, final, font, lastWrite, requestVars, components>>

\* Component.set_y
SetY(c, y) ==
    /\ comps' = [comps EXCEPT ![c].y = y]
    /\ last' = Op("set_y", c, y, 0)
    /\ UNCHANGED <<heap, canvasVars, final, font, lastWrite, requestVars, components>>

\* Component.set_center_x
SetCenterX(c, parent_width) ==
    /\ comps' = [comps EXCEPT ![c].x = CenterOffset(parent_width, Width(comps[c]))]
    /\ last' = Op("set_center_x", c, parent_width, 0)
    /\ UNCHANGED <<heap, canvasVars, final, font, lastWrite, requestVars, components>>

\* Component.set_center_y
SetCenterY(c, parent_height) ==
    /\ comps' = [comps EXCEPT ![c].y = CenterOffset(parent_height, Height(comps[c]))]
    /\ last' = Op("set_center_y", c, parent_height, 0)
    /\ UNCHANGED <<heap, canvasVars, final, font, lastWrite, requestVars, components>>

\* Component.set_relative_center_x: self.set_center_x(2 * dependent.x + dependent.width)
SetRelativeCenterX(c, dependent) ==
    LET parent_width == RelativeParent(comps[dependent].x, Width(comps[dependent]))
    IN /\ InRange(CenterOffset(parent_width, Width(comps[c])))
       /\ comps' = [comps EXCEPT ![c].x = CenterOffset(parent_width, Width(comps[c]))]
       /\ last' = Op("set_relative_center_x", c, parent_width, dependent)
       /\ UNCHANGED <<heap, canvasVars, final, font, lastWrite, requestVars, components>>

\* Component.set_relative_center_y: self.set_center_y(2 * dependent.y + dependent.height)
SetRelativeCenterY(c, dependent) ==
    LET parent_height == RelativeParent(comps[dependent].y, Height(comps[dependent]))
    IN /\ InRange(CenterOffset(parent_height, Height(comps[c])))
       /\ comps' = [comps EXCEPT ![c].y = CenterOffset(parent_height, Height(comps[c]))]
       /\ last' = Op("set_relative_center_y", c, parent_height, dependent)
       /\ UNCHANGED <<heap, canvasVars, final, font, lastWrite, requestVars, components>>

\* two Components built at (0, 0) from asset rasters of different sizes
LayoutSources == {1, 4}

InitLayout ==
    /\ \E s1 \in LayoutSources, s2 \in LayoutSources :
         /\ heap = Assets \o <<Sources[s1], Sources[s2]>>
         /\ comps = <<[img |-> FinalId + 1, x |-> 0, y |-> 0,
                       name |-> "untitled", font |-> NoFont],
                      [img |-> FinalId + 2, x |-> 0, y |-> 0,
                       name |-> "untitled", font |-> NoFont]>>
    /\ image = BaseId
    /\ width = CanvasW
    /\ height = 1
    /\ overlays = <<>>
    /\ final = NoBuf
    /\ font = DefaultFontSize
    /\ last = NoOp
    /\ lastWrite = NoWrite
    /\ out = NoOut
    /\ cards = NoCards
    /\ frames = NoFrames
    /\ components = <<>>

NextLayout ==
    \/ \E c \in 1 .. Len(comps), x \in Coordinates : SetX(c, x)
    \/ \E c \in 1 .. Len(comps), y \in Coordinates : SetY(c, y)
    \/ \E c \in 1 .. Len(comps), w \in ParentSizes : SetCenterX(c, w)
    \/ \E c \in 1 .. Len(comps), h \in ParentSizes : SetCenterY(c, h)
    \/ \E c \in 1 .. Len(comps), d \in 1 .. Len(comps) : SetRelativeCenterX(c, d)
    \/ \E c \in 1 .. Len(comps), d \in 1 .. Len(comps) : SetRelativeCenterY(c, d)

SpecLayout == InitLayout /\ [][NextLayout]_vars

----------------------------------------------------------------------------
(* Text layout: Component.write and BaseImage.write *)

\* ImageDraw.textbbox((0, 0), text, font, stroke_width): the extent of a run
\* of glyphs at a font size; the stroke widens it on every side.  A text is
\* its number of glyphs.
TextBBox(text, size, stroke_width) ==
    <<text * (size - 1) + 2 * stroke_width, (size - 2) + 2 * stroke_width>>

MeasureStroke == 1

\* Component._set_font
SetFont(size) == IF size # NoSize THEN size ELSE DefaultFontSize

\* Component._revert_font / BaseImage.revert_font
RevertFontKeeps(current) == current
RevertFont(current) == DefaultFontSize

\* Component.write: horizontal position
WriteXCenterUp(align, x1, x2, text_width) ==
    IF align = "right" THEN x2 - text_width
    ELSE IF align = "center" THEN x1 + (x2 - x1 - text_width + 1) \div 2
    ELSE x1
WriteX(align, x1, x2, text_width) ==
    IF align = "right" THEN x2 - text_width
    ELSE IF align = "center" THEN x1 + (x2 - x1 - text_width) \div 2
    ELSE x1

\* Component.write: vertical position for centering
WriteYTruncated(y1, y2, text_height) ==
    IF y2 - y1 - text_height < 0
    THEN y1 - ((text_height - (y2 - y1)) \div 2)
    ELSE y1 + (y2 - y1 - text_height) \div 2
WriteY(y1, y2, text_height) == y1 + (y2 - y1 - text_height) \div 2

\* BaseImage.write: horizontal position
BaseWriteX(align, x1, x2, text_width) ==
    IF align = "right" THEN x2 - text_width
    ELSE IF align = "center" THEN x1 + (x2 - x1 - text_width) \div 2
    ELSE x1

\* BaseImage.write: vertical position for centering
BaseWriteY(y1, y2, text_height) == y1 + (y2 - y1 - text_height) \div 2

\* Component.write: textbox_pos or ((0, 0), (self.img.width, self.img.height))
ComponentBox(textbox_pos, img) ==
    IF textbox_pos # NoBox THEN textbox_pos ELSE <<<<0, 0>>, <<img.w, img.h>>>>

\* BaseImage.write: the default value of the parameter textbox_pos
BaseBox(textbox_pos, img) ==
    IF textbox_pos # NoBox THEN textbox_pos ELSE <<<<0, 0>>, <<0, 0>>>>

\* Component.write: stroke_width=3 if stroke else 0
ComponentStrokeWidth(stroke) == IF stroke \notin {"None", ""} THEN 3 ELSE 0

\* BaseImage.write: stroke_width=None if stroke is None else 3
BaseStrokeWidth(stroke) == IF stroke = "None" THEN StrokeWidthNone ELSE 3

\* the arguments the writes are called with
Texts == {1, 2}

FontSizes == {NoSize, 20, 40}

Box200 == <<<<0, 0>>, <<200, 50>>>>

BoxSmall == <<<<1, 1>>, <<4, 12>>>>

Boxes == {NoBox, Box200, BoxSmall}

Aligns == {"left", "center", "right", "justify"}

Strokes == {"None", "", "black"}

DefaultFontSizes == {DefaultFontSize, 50}

\* Component.write(text, font_size, textbox_pos, align, color, stroke)
ComponentWrite(c, text, font_size, textbox_pos, align, stroke) ==
    LET img == heap[comps[c].img]
        box == ComponentBox(textbox_pos, img)
        \* _get_text_size
        font1 == IF font_size # NoSize THEN SetFont(font_size) ELSE comps[c].font
        bbox == TextBBox(text, font1, MeasureStroke)
        x == WriteX(align, box[1][1], box[2][1], bbox[1])
        y == WriteY(box[1][2], box[2][2], bbox[2])
        font2 == SetFont(font_size)
        call == [target |-> "component", who |-> c, text |-> text,
                 font_size |-> font_size, textbox_pos |-> textbox_pos,
                 align |-> align, stroke |-> stroke]
    IN /\ img.ink < MaxWrites
       /\ IF font1 = NoFont
          THEN \* self.font does not exist: AttributeError out of _get_text_size
               /\ lastWrite' = [NoWrite EXCEPT !.target = "component", !.who = c,
                                  !.text = text, !.font_size = font_size,
                                  !.textbox_pos = textbox_pos, !.align = align,
                                  !.stroke = stroke, !.box = box,
                                  !.raised = "AttributeError", !.prev = Prev]
               /\ UNCHANGED <<heap, comps>>
          ELSE /\ lastWrite' = [NoWrite EXCEPT !.target = "component", !.who = c,
                                  !.text = text, !.font_size = font_size,
                                  !.textbox_pos = textbox_pos, !.align = align,
                                  !.stroke = stroke, !.box = box,
                                  !.measureFont = font1,
                                  !.tw = bbox[1], !.th = bbox[2],
                                  !.x = x, !.y = y, !.drawFont = font2,
                                  !.strokeWidth = ComponentStrokeWidth(stroke),
                                  !.done = TRUE, !.nth = img.ink + 1, !.prev = Prev]
               /\ heap' = [heap EXCEPT ![comps[c].img].ink = @ + 1]
               /\ comps' = [comps EXCEPT ![c].font = RevertFont(font2)]
       /\ UNCHANGED <<canvasVars, final, font, last, requestVars, components>>

\* BaseImage.write(text, font_size, textbox_pos, align, color, stroke)
BaseImageWrite(text, font_size, textbox_pos, align, stroke) ==
    LET img == heap[image]
        box == BaseBox(textbox_pos, img)
        \* get_text_size
        font1 == IF font_size # NoSize THEN font_size ELSE font
        bbox == TextBBox(text, font1, MeasureStroke)
        reverted == RevertFont(font1)
        x == BaseWriteX(align, box[1][1], box[2][1], bbox[1])
        y == BaseWriteY(box[1][2], box[2][2], bbox[2])
        font2 == IF font_size # NoSize THEN font_size ELSE reverted
    IN /\ img.ink < MaxWrites
       /\ lastWrite' = [NoWrite EXCEPT !.target = "base", !.text = text,
                          !.font_size = font_size, !.textbox_pos = textbox_pos,
                          !.align = align, !.stroke = stroke, !.box = box,
                          !.measureFont = font1, !.tw = bbox[1], !.th = bbox[2],
                          !.x = x, !.y = y, !.drawFont = font2,
                          !.strokeWidth = BaseStrokeWidth(stroke),
                          !.done = TRUE, !.nth = img.ink + 1, !.prev = Prev]
       /\ heap' = [heap EXCEPT ![image].ink = @ + 1]
       /\ font' = RevertFont(font2)
       /\ UNCHANGED <<comps, canvasVars, final, last, requestVars, components>>

\* a BaseImage built with some default_font_size over the canvas, and one
\* Component built from an asset raster
InitText ==
    /\ heap = Assets \o <<Sources[1]>>
    /\ comps = <<[img |-> FinalId + 1, x |-> 0, y |-> 0,
                  name |-> "untitled", font |-> NoFont]>>
    /\ image = BaseId
    /\ width = CanvasW
    /\ height = 1
    /\ overlays = <<>>
    /\ final = NoBuf
    /\ font \in DefaultFontSizes
    /\ last = NoOp
    /\ lastWrite = NoWrite
    /\ out = NoOut
    /\ cards = NoCards
    /\ frames = NoFrames
    /\ components = <<>>

NextText ==
    \/ \E c \in 1 .. Len(comps), text \in Texts, font_size \in FontSizes,
          textbox_pos \in Boxes, align \in Aligns, stroke \in Strokes :
            ComponentWrite(c, text, font_size, textbox_pos, align, stroke)
    \/ \E text \in Texts, font_size \in FontSizes,
          textbox_pos \in Boxes, align \in Aligns, stroke \in Strokes :
            BaseImageWrite(text, font_size, textbox_pos, align, stroke)

SpecText == InitText /\ [][NextText]_vars

----------------------------------------------------------------------------
(* Background construction, BaseImage.resize and BaseImage.bytes *)

MaxDim == 3      \* largest explicit width / height and resize width

Dims == 1 .. MaxDim

OptionalDims == {NoDim} \cup Dims

\* Image.resize((w, h), LANCZOS): a new raster of exactly that size.  Each
\* pixel takes the source sample under its centre; the weights of the filter
\* are not modelled.  (Unresized: the raster as it was.)
Unresized(buf, w, h) == buf
Resample(buf, w, h) ==
    [buf EXCEPT !.w = w, !.h = h,
        !.px = [p \in Coords(w, h) |->
                  buf.px[<<((2 * p[1] + 1) * buf.w) \div (2 * w),
                           ((2 * p[2] + 1) * buf.h) \div (2 * h)>>]]]

\* what Background.__init__ raises: bg.copy() on None, resize with a None in
\* the size
BackgroundRaises(bg, w, h) ==
    IF bg = NoBuf THEN "AttributeError"
    ELSE IF (w # NoDim \/ h # NoDim) /\ (w = NoDim \/ h = NoDim) THEN "TypeError"
    ELSE ""

\* Background(width, height, bg, name): the new canvas takes the place of the
\* one before; a constructor that raises leaves no object
NewBackground(bg, w, h) ==
    /\ out' = [NoOut EXCEPT !.op = "Background", !.bg = bg, !.width = w,
                            !.height = h, !.raised = BackgroundRaises(bg, w, h)]
    /\ IF BackgroundRaises(bg, w, h) # ""
       THEN UNCHANGED <<heap, canvasVars>>
       ELSE LET own == Copy(bg, BaseId)
                resized == w # NoDim \/ h # NoDim
                img == IF resized THEN Resample(heap[bg], w, h) ELSE heap[bg]
            IN /\ image' = IF resized THEN BaseId ELSE own
               /\ heap' = [heap EXCEPT ![image'] = img]
               /\ width' = img.w
               /\ height' = img.h
               /\ overlays' = <<>>
    /\ last' = Op("Background", bg, w, h)
    /\ UNCHANGED <<comps, final, font, lastWrite, cards, frames, components>>

\* height = int((width / self.final.width) * self.final.height)
ResizeHeight(w, ow, oh) == (w * oh) \div ow

\* what BaseImage.resize raises: final is None, or Image.resize refuses a
\* height of 0
ResizeRaises(w) ==
    IF final = NoBuf THEN "AttributeError"
    ELSE IF ResizeHeight(w, heap[final].w, heap[final].h) < 1 THEN "ValueError"
    ELSE ""

\* BaseImage.resize(width)
ResizeCall(w) ==
    /\ final # NoBuf => ResizeHeight(w, heap[final].w, heap[final].h) <= MaxDim
    /\ out' = [NoOut EXCEPT !.op = "resize", !.width = w,
                            !.ow = IF final = NoBuf THEN 0 ELSE heap[final].w,
                            !.oh = IF final = NoBuf THEN 0 ELSE heap[final].h,
                            !.raised = ResizeRaises(w)]
    /\ IF ResizeRaises(w) # ""
       THEN UNCHANGED heap
       ELSE heap' = [heap EXCEPT ![final] =
               Resample(@, w, ResizeHeight(w, heap[final].w, heap[final].h))]
    /\ last' = Op("resize", 0, w, 0)
    /\ UNCHANGED <<comps, canvasVars, final, font, lastWrite, cards, frames, components>>

\* BaseImage.bytes(): an Exception instance (returned) or the PNG encoding,
\* which holds the raster
Bytes(f) ==
    IF f = NoBuf THEN [type |-> "Exception", png |-> NoRaster]
    ELSE [type |-> "bytes", png |-> heap[f]]

BytesCall ==
    /\ out' = [NoOut EXCEPT !.op = "bytes", !.value = Bytes(final)]
    /\ last' = Op("bytes", 0, 0, 0)
    /\ UNCHANGED <<heap, comps, canvasVars, final, font, lastWrite, cards, frames,
                   components>>

\* `bytes is Exception`: the identity of the value with the class Exception
IsExceptionClass(value) == FALSE

\* base64.b64encode(value).decode("utf-8")
B64Encode(value) ==
    IF value.type = "bytes"
    THEN [ret |-> [type |-> "str", png |-> value.png], raised |-> ""]
    ELSE [ret |-> [type |-> "none", png |-> NoRaster], raised |-> "TypeError"]

BaseImageCards == {"result", "profile", "battle_log"}

\* the statements of respond() that follow `image.bytes()`, for the cards
\* that derive from BaseImage
RespondEncode(card, value) ==
    IF card \in {"profile", "battle_log"} /\ IsExceptionClass(value)
    THEN [ret |-> [type |-> "Exception", png |-> NoRaster], raised |-> ""]
    ELSE B64Encode(value)

CanvasSources == {1, 4}

NextCanvas ==
    \/ \E bg \in {NoBuf} \cup CanvasSources, w \in OptionalDims, h \in OptionalDims :
         NewBackground(bg, w, h)
    \/ FabricateCall
    \/ \E w \in Dims : ResizeCall(w)
    \/ BytesCall

SpecCanvas == Init /\ [][NextCanvas]_vars

----------------------------------------------------------------------------
(* Render requests: respond() of the four cards, cut at the awaits that    *)
(* suspend (the remote fetches).  A request names the one local asset      *)
(* whose load fails (fail, "none" when all load) and, for a battle log,    *)
(* the number n of entries; each fetch outcome arrives when the coroutine  *)
(* resumes.  The text draws of preset are those of the text layout above   *)
(* and are left out here.                                                  *)

MaxLogs == 2     \* entries of a battle log

CardTypes == {"match", "result", "profile", "battle_log"}

FetchOutcomes == {"ok", "http_status", "network", "decode"}

\* the local loads of Match.__init__ before its first await, in order
MatchLoads ==
    <<"bg", "fg", "vs", "vs_line", "pvpd", "pvpu", "left_name", "right_name">>

\* the assets a request may find missing
Failures(card) ==
    CASE card = "match" -> {"none", "bg", "fg", "vs", "right_name", "font"}
      [] card = "result" -> {"none", "bg", "font"}
      [] card = "profile" -> {"none", "bg", "font", "layer", "brawler"}
      [] card = "battle_log" -> {"none", "bg", "vs", "font"}

Entries(card) == IF card = "battle_log" THEN 1 .. MaxLogs ELSE {0}

\* the players of the battle-log entries
Players == {"ann", "bob"}

Other(player) == CHOOSE q \in Players : q # player

\* an entry of battle_logs: result is the winner's id, or "null" for a draw
Rounds ==
    UNION {{[winner |-> w, eliminated |-> Other(w), result |-> res] :
                res \in {w, "null"}} : w \in Players}

\* the entries a request of n entries carries when only n matters: ann and
\* bob win in turn, every second round a draw
Sheet(n) ==
    [i \in 1 .. n |->
        IF i % 2 = 1 THEN [winner |-> "ann", eliminated |-> "bob", result |-> "ann"]
        ELSE [winner |-> "bob", eliminated |-> "ann", result |-> "null"]]

\* the geometry of the battle-log sheet
PanelWidth == 1280

PanelHeight == 720

Gap == 10

\* BattleLog.__init__: height=720 * n + self.gap * (n - 1)
SheetHeight(n) == PanelHeight * n + Gap * (n - 1)

\* BattleLog.preset: pos=(0, 720 * index + self.gap * (index + 1))
PanelY(index) == PanelHeight * index + Gap * (index + 1)

\* TempPlayer(discord_id, discord_name, icon) of a player of battle_logs[0]
TempPlayer(player) == [discord_name |-> player, icon |-> player]

\* BattleLog.preset: what the panel of battle_logs[index] is given: the
\* position of base_bg, the caption on layer1, the icons and the names
\* written under them
Panel(o, log, index) ==
    [x |-> 0, y |-> PanelY(index),
     caption |-> IF log.result = "null" THEN <<"Draw">>
                 ELSE <<o.winner.discord_name, "won this round">>,
     winner_icon |-> o.winner.icon,
     winner_name |-> o.winner.discord_name,
     eliminated_icon |-> o.eliminated.icon,
     eliminated_name |-> o.eliminated.discord_name]

Panels(o, logs) == [i \in 1 .. Len(logs) |-> Panel(o, logs[i], i - 1)]

\* instance = super().__new__(cls): the object a request's card is
\* (NewInstanceSingleton: one object serving every request)
NewInstanceSingleton(r) == 1
NewInstance(r) == r

\* Asset.get_image / Asset.font: (raster, None) or (None, e)
LoadError(name, fail) == IF name = fail THEN <<"load", name>> ELSE NoError

\* `x, self.error = self.asset.get_image(...)`
Assign(o, name, fail) ==
    [o EXCEPT !.has = IF name = fail THEN @ \ {name} ELSE @ \cup {name},
              !.error = LoadError(name, fail)]

\* `x, error = self.asset.get_image(...); self._update_error(error)`
AssignKeep(o, name, fail) ==
    [o EXCEPT !.has = IF name = fail THEN @ \ {name} ELSE @ \cup {name},
              !.error = IF name = fail THEN LoadError(name, fail) ELSE @]

RECURSIVE AssignAll(_, _, _)
AssignAll(o, names, fail) ==
    IF names = <<>> THEN o
    ELSE AssignAll(Assign(o, Head(names), fail), Tail(names), fail)

\* BaseImage.__init__(bg, default_font_size)
BaseImageInit(o, fail) ==
    [Assign(o, "font", fail) EXCEPT !.bg = "canvas", !.error = NoError,
                                    !.components = <<>>, !.final = "none"]

\* model.Asset.icon: every failure reaches a handler that calls
\* Asset.get_image("28000000.png") without an instance
ModelIcon(x) ==
    IF x = "ok" THEN [img |-> "remote", error |-> NoError, raised |-> ""]
    ELSE [img |-> "unset", error |-> NoError, raised |-> "TypeError"]

\* utils.Asset.icon
UtilsIcon(x) ==
    IF x = "ok" THEN [img |-> "remote", error |-> NoError, raised |-> ""]
    ELSE [img |-> "none", error |-> <<"fetch", x>>, raised |-> ""]

\* model.Asset.get_mode_icon
ModeIcon(x) ==
    IF x = "ok" THEN [img |-> "remote", error |-> NoError, raised |-> ""]
    ELSE [img |-> "none", error |-> <<"fetch", x>>, raised |-> ""]

Entry(name, panel) == [name |-> name, panel |-> panel]

\* Match.preset: self.components = [...]
MatchComponents ==
    <<Entry("vs", 0), Entry("vs_line", 0), Entry("icon1", 0), Entry("icon2", 0),
      Entry("name1_layout", 0), Entry("name2_layout", 0)>>

ResultComponents == <<Entry("icon1", 0), Entry("icon2", 0)>>

ProfileComponents == <<Entry("icon", 0), Entry("bicon", 0)>>

\* BattleLog.preset: one self.components.extend([...]) per entry
PanelComponents(index) ==
    <<Entry("base_bg", index), Entry("layer1", index), Entry("mode_icon", index),
      Entry("winner_icon", index), Entry("eliminated_icon", index),
      Entry("vs", index)>>

RECURSIVE BattleLogComponents(_)
BattleLogComponents(n) ==
    IF n = 0 THEN <<>>
    ELSE BattleLogComponents(n - 1) \o PanelComponents(n - 1)

\* the coroutine ends: an exception leaves respond()
Raise(o, f, exc) ==
    [o |-> o,
     f |-> [f EXCEPT !.pc = "done", !.result = [Pending EXCEPT !.kind = "raised",
                                                                !.raised = exc]]]

\* the coroutine ends: respond() returns an Exception value
ReturnError(o, f, e) ==
    [o |-> o,
     f |-> [f EXCEPT !.pc = "done", !.result = [Pending EXCEPT !.kind = "error",
                                                                !.error = e]]]

\* the coroutine ends: respond() returns the encoded image
ReturnData(o, f, data) ==
    [o |-> o,
     f |-> [f EXCEPT !.pc = "done", !.result = [Pending EXCEPT !.kind = "data",
                                                                !.data = data]]]

\* the coroutine suspends at an await
Await(o, f, pc) == [o |-> o, f |-> [f EXCEPT !.pc = pc]]

\* BaseImage.build
Build(o) ==
    [o EXCEPT !.overlays = @ \o o.components, !.final = "built",
              !.components = <<>>]

\* BaseImage.bytes() of a card: the PNG holds the composite of the overlays
CardBytes(o) ==
    IF o.final = "none" THEN [type |-> "Exception", png |-> NoRaster]
    ELSE [type |-> "bytes", png |-> o.overlays]

\* the assets preset() dereferences
PresetNeeds(card) ==
    CASE card = "match" -> {"vs", "vs_line", "left_name", "right_name"}
      [] card = "result" -> {}
      [] card = "profile" -> {"brawler"}
      [] card = "battle_log" -> {"mode_icon", "vs"}

Components(card, logs) ==
    CASE card = "match" -> MatchComponents
      [] card = "result" -> ResultComponents
      [] card = "profile" -> ProfileComponents
      [] card = "battle_log" -> BattleLogComponents(Len(logs))

\* RequestMatch.respond from `if image.error:` on
MatchRespond(o, f) ==
    IF o.error # NoError THEN ReturnError(o, f, o.error)
    ELSE IF ~(PresetNeeds("match") \subseteq o.has) \/ "none" \in {o.pi1, o.pi2}
    THEN Raise(o, f, "AttributeError")
    ELSE \* Match.build: the overlays are added, then self.bg.build() fails
         Raise([o EXCEPT !.bg = "canvas", !.components = MatchComponents,
                         !.overlays = MatchComponents],
               f, "AttributeError")

\* respond of RequestResult / RequestProfile / RequestBattleLog from
\* `if image.error:` on
BaseRespond(o, f) ==
    IF o.error # NoError THEN ReturnError(o, f, o.error)
    ELSE IF ~(PresetNeeds(f.card) \subseteq o.has)
    THEN Raise(o, f, "AttributeError")
    ELSE LET preset == [o EXCEPT !.components = @ \o Components(f.card, f.logs),
                                 !.panels = IF f.card = "battle_log"
                                            THEN Panels(o, f.logs) ELSE @]
             built == Build(preset)
             sized == IF f.card = "battle_log"
                      THEN [built EXCEPT !.final = "resized"] ELSE built
             encode == RespondEncode(f.card, CardBytes(sized))
         IN IF encode.raised # "" THEN Raise(sized, f, encode.raised)
            ELSE IF encode.ret.type = "Exception"
            THEN ReturnError(sized, f, <<"bytes">>)
            ELSE ReturnData(sized, f, encode.ret.png)

\* respond() from its call to its first await
Begin(card, fail, logs, self) ==
    LET f == [NoFrame EXCEPT !.card = card, !.fail = fail, !.logs = logs,
                             !.self = self]
        o == [NoCard EXCEPT !.card = card]
        bg == Assign(o, "bg", fail)
    IN CASE card = "match" ->
              Await(AssignAll(o, MatchLoads, fail), f, "icon1")
         [] card = "result" ->
              IF "bg" \notin bg.has THEN Raise(bg, f, "AttributeError")
              ELSE Await(BaseImageInit(bg, fail), f, "icon1")
         [] card = "profile" ->
              IF "bg" \notin bg.has THEN Raise(bg, f, "AttributeError")
              ELSE Await(AssignKeep(BaseImageInit(bg, fail), "layer", fail),
                         f, "icon1")
         [] card = "battle_log" ->
              LET vs == Assign(bg, "vs", fail)
              IN IF "bg" \notin vs.has THEN Raise(vs, f, "AttributeError")
                 ELSE Await([BaseImageInit(vs, fail) EXCEPT
                                !.width = PanelWidth,
                                !.height = SheetHeight(Len(logs))],
                            f, "mode_icon")

\* the end of Match.__init__ after the second icon
MatchInitEnd(o, f) ==
    LET loaded == Assign(o, "font", f.fail)
    IN IF "bg" \notin loaded.has THEN Raise(loaded, f, "AttributeError")
       ELSE IF "fg" \notin loaded.has THEN Raise(loaded, f, "ValueError")
       ELSE MatchRespond([loaded EXCEPT !.bg = "image"], f)

\* the end of Profile.__init__ after the icon
ProfileInitEnd(o, f) ==
    LET brawler == AssignKeep(o, "brawler", f.fail)
    IN IF "layer" \notin brawler.has THEN Raise(brawler, f, "AttributeError")
       ELSE BaseRespond(brawler, f)

\* the coroutine resumes with the outcome x of the fetch it awaits and runs
\* to its next await or to its end
Resume(o, g, x) ==
    LET f == [g EXCEPT !.fetched = Append(@, x)]
        u == UtilsIcon(x)
        m == ModelIcon(x)
        k == ModeIcon(x)
    IN CASE f.card = "match" /\ f.pc = "icon1" ->
              Await([o EXCEPT !.pi1 = u.img, !.error = u.error], f, "icon2")
         [] f.card = "match" /\ f.pc = "icon2" ->
              MatchInitEnd([o EXCEPT !.pi2 = u.img, !.error = u.error], f)
         [] f.card = "battle_log" /\ f.pc = "mode_icon" ->
              Await([o EXCEPT !.has = IF x = "ok" THEN @ \cup {"mode_icon"} ELSE @,
                              !.error = k.error], f, "icon1")
         [] f.card # "match" /\ f.pc \in {"icon1", "icon2"} /\ m.raised # "" ->
              Raise(o, f, m.raised)
         [] f.card = "result" /\ f.pc = "icon1" /\ m.raised = "" ->
              Await([o EXCEPT !.pi1 = m.img, !.error = m.error], f, "icon2")
         [] f.card = "result" /\ f.pc = "icon2" /\ m.raised = "" ->
              BaseRespond([o EXCEPT !.pi2 = m.img, !.error = m.error], f)
         [] f.card = "profile" /\ f.pc = "icon1" /\ m.raised = "" ->
              ProfileInitEnd([o EXCEPT !.pi1 = m.img], f)
         [] f.card = "battle_log" /\ f.pc = "icon1" /\ m.raised = "" ->
              Await([o EXCEPT !.pi1 = m.img,
                              !.winner = TempPlayer(f.logs[1].winner)], f, "icon2")
         [] f.card = "battle_log" /\ f.pc = "icon2" /\ m.raised = "" ->
              BaseRespond([o EXCEPT !.pi2 = m.img,
                                    !.eliminated = TempPlayer(f.logs[1].eliminated)],
                          f)

\* another request is suspended at an await
Busy(r) == \E q \in Requests \ {r} : frames[q].pc \notin {"idle", "done"}

\* a request arrives: respond() runs to its first await
Request(r, card, fail, logs) ==
    /\ frames[r].pc = "idle"
    /\ LET st == Begin(card, fail, logs, NewInstance(r))
       IN /\ cards' = [cards EXCEPT ![st.f.self] = st.o]
          /\ frames' = [frames EXCEPT ![r] = [st.f EXCEPT !.overlap = Busy(r)]]
    /\ UNCHANGED <<heap, comps, canvasVars, final, font, last, lastWrite, out,
                   components>>

\* a fetch completes
Fetched(r, x) ==
    /\ frames[r].pc \notin {"idle", "done"}
    /\ LET st == Resume(cards[frames[r].self], frames[r], x)
       IN /\ cards' = [cards EXCEPT ![frames[r].self] = st.o]
          /\ frames' = [frames EXCEPT ![r] = [st.f EXCEPT !.overlap = @ \/ Busy(r)]]
    /\ UNCHANGED <<heap, comps, canvasVars, final, font, last, lastWrite, out,
                   components>>

NextRequest ==
    \/ \E r \in Requests, card \in CardTypes :
         \E fail \in Failures(card), n \in Entries(card) :
            Request(r, card, fail, Sheet(n))
    \/ \E r \in Requests, x \in FetchOutcomes : Fetched(r, x)

SpecRequest == Init /\ [][NextRequest]_vars

\* one battle-log request, with every sheet of up to MaxLogs entries
Sheets == UNION {[1 .. n -> Rounds] : n \in 1 .. MaxLogs}

NextSheet ==
    \/ \E fail \in Failures("battle_log"), logs \in Sheets :
         Request(1, "battle_log", fail, logs)
    \/ \E x \in FetchOutcomes : Fetched(1, x)

SpecSheet == Init /\ [][NextSheet]_vars

----------------------------------------------------------------------------
(* Components that share a source: construction, write, set_dimensions and *)
(* has_transparency                                                        *)

\* a palette raster that declares a transparency index none of its pixels has
UnusedKeyIcon == Buffer("P", 3, 2, 1,
                        (<<0, 0>> :> <<1, 255>>) @@ (<<1, 0>> :> <<2, 255>>))

UnusedKeyId == FinalId + 1

\* the rasters Components are built from: asset rasters and, as in
\* Component(img=other.img), the buffer of a Component built before
ComponentSources == {1} \cup {comps[c].img : c \in DOMAIN comps}

NewSizes == {<<3, 1>>}

\* Component.set_dimensions(width, height): self.img becomes the raster that
\* Image.resize returns, a new object; it takes the slot of the old raster
\* when nothing else holds that one
SetDimensions(c, w, h) ==
    LET old == comps[c].img
        held == old <= UnusedKeyId \/ \E d \in DOMAIN comps \ {c} : comps[d].img = old
        new == IF held THEN Len(heap) + 1 ELSE old
    IN /\ <<Width(comps[c]), Height(comps[c])>> # <<w, h>>
       /\ heap' = IF held THEN Append(heap, Resample(heap[old], w, h))
                  ELSE [heap EXCEPT ![old] = Resample(@, w, h)]
       /\ comps' = [comps EXCEPT ![c].img = new]
       /\ last' = Op("set_dimensions", c, w, h)
       /\ UNCHANGED <<canvasVars, final, font, lastWrite, requestVars, components>>

\* Component.has_transparency(): the value it returns, 1 for True
HasTransparencyCall(c) ==
    /\ last' = Op("has_transparency", c,
                  IF HasTransparency(heap[comps[c].img]) THEN 1 ELSE 0, 0)
    /\ UNCHANGED <<heap, comps, canvasVars, final, font, lastWrite, requestVars,
                   components>>

InitComponent ==
    /\ heap = Append(Assets, UnusedKeyIcon)
    /\ comps = <<>>
    /\ image = BaseId
    /\ width = CanvasW
    /\ height = 1
    /\ overlays = <<>>
    /\ final = NoBuf
    /\ font = DefaultFontSize
    /\ last = NoOp
    /\ lastWrite = NoWrite
    /\ out = NoOut
    /\ cards = NoCards
    /\ frames = NoFrames
    /\ components = <<>>

NextComponent ==
    \/ \E src \in ComponentSources : NewComponent(src, <<0, 0>>)
    \/ \E c \in 1 .. Len(comps) : ComponentWrite(c, 1, 20, NoBox, "left", "None")
    \/ \E c \in 1 .. Len(comps), size \in NewSizes : SetDimensions(c, size[1], size[2])
    \/ \E c \in 1 .. Len(comps) : SetCenterX(c, 4)

SpecComponent == InitComponent /\ [][NextComponent]_vars

\* Components built from every kind of raster, asked for their transparency
TransparencySources == {1, 2, 3, 4, UnusedKeyId}

NextTransparency ==
    \/ \E src \in TransparencySources, pos \in Positions : NewComponent(src, pos)
    \/ \E c \in 1 .. Len(comps) : HasTransparencyCall(c)

SpecTransparency == InitComponent /\ [][NextTransparency]_vars

----------------------------------------------------------------------------
(* BaseImage.build *)

\* the Components a list holds
Held(cs) == {cs[i] : i \in 1 .. Len(cs)}

\* preset(): a Component it has just constructed joins self.components
PresetAppend(c) ==
    /\ c \notin Held(components) \cup Held(overlays)
    /\ Len(overlays) + Len(components) < MaxOverlays
    /\ components' = Append(components, c)
    /\ last' = Op("preset", c, 0, 0)
    /\ UNCHANGED <<heap, comps, canvasVars, final, font, lastWrite, requestVars>>

\* BaseImage.build: self.components = []
KeepComponents(cs) == cs
ClearComponents(cs) == <<>>

\* BaseImage.build(): every component is added to the canvas, the canvas is
\* fabricated into final, and the list is emptied
BuildCall ==
    /\ Len(overlays) + Len(components) <= MaxOverlays
    /\ LET added == overlays \o components
           final_image == Copy(image, FinalId)
       IN /\ overlays' = added
          /\ heap' = [heap EXCEPT
                         ![final_image] = Fabricate(heap, comps, image, added)]
          /\ final' = final_image
    /\ components' = ClearComponents(components)
    /\ last' = Op("build", 0, 0, 0)
    /\ UNCHANGED <<comps, image, width, height, font, lastWrite, requestVars>>

\* an opaque and a translucent raster
BuildSources == {1, 2}

NextBuild ==
    \/ \E src \in BuildSources, pos \in Positions : NewComponent(src, pos)
    \/ \E c \in 1 .. Len(comps) : PresetAppend(c)
    \/ BuildCall

SpecBuild == Init /\ [][NextBuild]_vars

----------------------------------------------------------------------------
(* Paint order and compositing *)

Painted == last.op = "fabricate"

\* the overlay's pixel, as RGBA, that lands on canvas pixel p
PixelOn(c, p) == ConvertRGBA(heap[c.img]).px[<<p[1] - c.x, p[2] - c.y>>]

\* the overlay hides what is beneath it at p: it is pasted without a mask,
\* or its alpha there is 255
OpaqueAt(c, p) == ~HasTransparency(heap[c.img]) \/ PixelOn(c, p)[2] = 255

\* the pixel at p seen from the top of the first k overlays downwards
RECURSIVE Seen(_, _)
Seen(p, k) ==
    IF k = 0 THEN heap[image].px[p]
    ELSE LET c == comps[overlays[k]]
         IN IF ~Covers(heap[c.img], c.x, c.y, p) THEN Seen(p, k - 1)
            ELSE IF OpaqueAt(c, p) THEN PixelOn(c, p)
            ELSE BlendPixel(PixelOn(c, p)[2], Seen(p, k - 1), PixelOn(c, p))

CoveredBy(p) ==
    {k \in 1 .. Len(overlays) :
        Covers(heap[comps[overlays[k]].img], comps[overlays[k]].x,
               comps[overlays[k]].y, p)}

TopCover(p) == CHOOSE k \in CoveredBy(p) : \A j \in CoveredBy(p) : j <= k

\* C1: after add_overlay calls and fabricate(), every pixel of the output is
\* what is seen looking down the overlays from the last added to the first:
\* the pixel of the topmost covering overlay when it is opaque there, else
\* that overlay blended over what the earlier overlays and the base give.
C1_PaintOrder ==
    Painted =>
        /\ DOMAIN heap[final].px = DOMAIN heap[image].px
        /\ \A p \in DOMAIN heap[final].px :
              /\ heap[final].px[p] = Seen(p, Len(overlays))
              /\ (CoveredBy(p) # {} /\ OpaqueAt(comps[overlays[TopCover(p)]], p))
                    => heap[final].px[p] = PixelOn(comps[overlays[TopCover(p)]], p)

\* a fabricated canvas where one pixel lies under several overlays with an
\* opaque one on top, and another under several with a translucent one on top
C1_Witness ==
    /\ Painted
    /\ \E p \in DOMAIN heap[final].px :
          /\ Cardinality(CoveredBy(p)) >= 2
          /\ OpaqueAt(comps[overlays[TopCover(p)]], p)
          /\ heap[final].px[p] # heap[image].px[p]
    /\ \E q \in DOMAIN heap[final].px :
          /\ Cardinality(CoveredBy(q)) >= 2
          /\ PixelOn(comps[overlays[TopCover(q)]], q)[2] \in 1 .. 254
          /\ ~OpaqueAt(comps[overlays[TopCover(q)]], q)

\* the canvas after the first k overlays are painted
After(k) ==
    IF k = Len(overlays) THEN heap[final]
    ELSE Fabricate(heap, comps, image, SubSeq(overlays, 1, k))

\* C2: in fabricate(), an overlay whose has_transparency() is true is
\* blended into what is already painted with its own alpha as the mask, and
\* an overlay whose has_transparency() is false replaces every destination
\* pixel inside its box by its own pixel.
C2_MaskOrReplace ==
    Painted =>
        \A k \in 1 .. Len(overlays) :
            LET c == comps[overlays[k]]
                top == heap[c.img]
            IN \A p \in DOMAIN heap[image].px :
                 IF ~Covers(top, c.x, c.y, p)
                 THEN After(k).px[p] = After(k - 1).px[p]
                 ELSE IF HasTransparency(top)
                 THEN After(k).px[p] =
                        BlendPixel(PixelOn(c, p)[2], After(k - 1).px[p], PixelOn(c, p))
                 ELSE After(k).px[p] = PixelOn(c, p)

\* a fabricated canvas whose last overlay has no transparency by
\* has_transparency() and still carries alpha below 255 on a visible pixel,
\* and which also holds an overlay that is blended
C2_Witness ==
    /\ Painted
    /\ Len(overlays) >= 2
    /\ LET c == comps[overlays[Len(overlays)]]
       IN /\ ~HasTransparency(heap[c.img])
          /\ \E p \in DOMAIN heap[final].px :
                /\ Covers(heap[c.img], c.x, c.y, p)
                /\ PixelOn(c, p)[2] < 255
                /\ heap[final].px[p] = PixelOn(c, p)
    /\ \E k \in 1 .. Len(overlays) - 1 :
          LET d == comps[overlays[k]]
          IN /\ HasTransparency(heap[d.img])
             /\ \E p \in DOMAIN heap[image].px :
                   /\ Covers(heap[d.img], d.x, d.y, p)
                   /\ PixelOn(d, p)[2] \in 1 .. 254

\* C3: fabricate() leaves the Background as it was: the base image, width,
\* height, the overlays list and every Component's buffer and position are
\* unchanged, and the returned raster is a new object.
C3_FabricateFrame ==
    [][last'.op = "fabricate" =>
        /\ image' = image /\ width' = width /\ height' = height
        /\ overlays' = overlays
        /\ comps' = comps
        /\ heap'[image] = heap[image]
        /\ \A c \in DOMAIN comps : heap'[comps[c].img] = heap[comps[c].img]
        /\ final' # image
        /\ \A c \in DOMAIN comps : final' # comps[c].img]_vars

\* fabricate() was called twice in a row on a canvas whose overlays change
\* the picture
C3_Witness ==
    /\ Painted /\ last.rep
    /\ Len(overlays) >= 1
    /\ heap[final].px # heap[image].px

----------------------------------------------------------------------------
(* Centering *)

\* q is the floor of n / 2
IsFloorHalf(q, n) == 2 * q <= n /\ n < 2 * q + 2

\* C4: set_center_x(w) sets x to the floor of (w - cw) / 2 and leaves y and
\* the buffer alone, and applying it again with the same w leaves x where it
\* is; likewise set_center_y with heights.
C4_CenterFloor ==
    [][/\ last'.op = "set_center_x" =>
            LET c == last'.who
            IN /\ IsFloorHalf(comps'[c].x, last'.arg - Width(comps[c]))
               /\ comps'[c].y = comps[c].y
               /\ comps'[c].img = comps[c].img
               /\ heap' = heap
               /\ last'.rep => comps'[c].x = comps[c].x
       /\ last'.op = "set_center_y" =>
            LET c == last'.who
            IN /\ IsFloorHalf(comps'[c].y, last'.arg - Height(comps[c]))
               /\ comps'[c].x = comps[c].x
               /\ comps'[c].img = comps[c].img
               /\ heap' = heap
               /\ last'.rep => comps'[c].y = comps[c].y]_vars

\* set_center_x was applied twice with the same parent width, wider than the
\* component by an odd amount, to a component that was elsewhere before
C4_Witness ==
    /\ last.op = "set_center_x" /\ last.rep
    /\ Width(comps[last.who]) <= last.arg
    /\ (last.arg - Width(comps[last.who])) % 2 = 1
    /\ comps[last.who].x = (last.arg - Width(comps[last.who])) \div 2
    /\ comps[last.who].x > 0
    /\ comps[last.who].y # 0

\* C5: set_relative_center_x(other) leaves the component where
\* set_center_x(2*other.x + other.width) puts it, x being the floor of
\* (2*other.x + other.width - cw) / 2, likewise set_relative_center_y with y
\* and heights, and the other component is not changed.
C5_RelativeCenter ==
    [][/\ last'.op = "set_relative_center_x" =>
            LET c == last'.who
                d == last'.other
            IN /\ IsFloorHalf(comps'[c].x,
                              2 * comps[d].x + Width(comps[d]) - Width(comps[c]))
               /\ comps'[c].y = comps[c].y
               /\ comps'[d] = comps[d]
               /\ heap' = heap
       /\ last'.op = "set_relative_center_y" =>
            LET c == last'.who
                d == last'.other
            IN /\ IsFloorHalf(comps'[c].y,
                              2 * comps[d].y + Height(comps[d]) - Height(comps[c]))
               /\ comps'[c].x = comps[c].x
               /\ comps'[d] = comps[d]
               /\ heap' = heap]_vars

\* a component was centered on another one of a different width that sits
\* away from the origin, and landed left of the origin
C5_Witness ==
    /\ last.op = "set_relative_center_x"
    /\ last.who # last.other
    /\ comps[last.other].x < 0
    /\ Width(comps[last.other]) # Width(comps[last.who])
    /\ comps[last.who].x = (2 * comps[last.other].x + Width(comps[last.other])
                              - Width(comps[last.who])) \div 2
    /\ comps[last.who].x < 0

----------------------------------------------------------------------------
(* Text placement *)

Written == lastWrite.done

\* the raster the last write targeted
Target == IF lastWrite.target = "component" THEN heap[comps[lastWrite.who].img]
          ELSE heap[image]

\* C6: in Component.write and BaseImage.write the horizontal draw origin is
\* x2 - tw for align "right", x1 + floor((x2 - x1 - tw) / 2) for "center" and
\* x1 for any other align value, which is no error; for the box
\* ((0,0),(200,50)) and tw = 40 that is 0, 80 and 160.
C6_HorizontalOrigin ==
    /\ Written =>
        LET x1 == lastWrite.box[1][1]
            x2 == lastWrite.box[2][1]
        IN /\ lastWrite.align = "right" => lastWrite.x = x2 - lastWrite.tw
           /\ lastWrite.align = "center" =>
                IsFloorHalf(lastWrite.x - x1, x2 - x1 - lastWrite.tw)
           /\ lastWrite.align \notin {"right", "center"} => lastWrite.x = x1
           /\ (lastWrite.box = Box200 /\ lastWrite.tw = 40) =>
                /\ lastWrite.align = "left" => lastWrite.x = 0
                /\ lastWrite.align = "center" => lastWrite.x = 80
                /\ lastWrite.align = "right" => lastWrite.x = 160
    /\ (lastWrite.target # "none" /\ ~Written) =>
        /\ lastWrite.target = "component"
        /\ lastWrite.font_size = NoSize

\* a centered write of text measured 40 wide into ((0,0),(200,50))
C6_Witness ==
    /\ Written
    /\ lastWrite.target = "component"
    /\ lastWrite.align = "center"
    /\ lastWrite.box = Box200 /\ lastWrite.tw = 40
    /\ lastWrite.x = 80

\* C7: in Component.write and BaseImage.write the vertical draw origin is
\* y1 + floor((y2 - y1 - text_height) / 2) whatever the align value, also
\* when the text is taller than the box; for the box ((0,0),(200,50)) and
\* text height 20 it is 15.
C7_VerticalOrigin ==
    Written =>
        LET y1 == lastWrite.box[1][2]
            y2 == lastWrite.box[2][2]
        IN /\ IsFloorHalf(lastWrite.y - y1, y2 - y1 - lastWrite.th)
           /\ (lastWrite.box = Box200 /\ lastWrite.th = 20) => lastWrite.y = 15

\* a right-aligned Component.write of text taller than its box by an odd
\* amount
C7_Witness ==
    /\ Written
    /\ lastWrite.target = "component"
    /\ lastWrite.align = "right"
    /\ lastWrite.box = BoxSmall
    /\ lastWrite.th > 11 /\ (lastWrite.th - 11) % 2 = 1
    /\ lastWrite.y < 0

\* C8: after every completed write the object's current font is the default
\* size 30, so a write without font_size that follows other writes on the
\* object measures and draws at 30 whatever sizes they used.
C8_FontReverts ==
    /\ \A c \in DOMAIN comps :
         heap[comps[c].img].ink > 0 => comps[c].font = 30
    /\ heap[image].ink > 0 => font = 30
    /\ (Written /\ lastWrite.nth >= 2 /\ lastWrite.font_size = NoSize) =>
         /\ lastWrite.measureFont = 30
         /\ lastWrite.drawFont = 30

\* a BaseImage.write without font_size completed right after a write of size
\* 40 on the same BaseImage
C8_Witness ==
    /\ Written
    /\ lastWrite.target = "base"
    /\ lastWrite.font_size = NoSize
    /\ lastWrite.prev = <<"base", 0, 40, TRUE>>
    /\ lastWrite.measureFont = 30
    /\ font = DefaultFontSize

\* C9: every write call measures and draws the text with the same font size:
\* font_size when it is given, 30 when it is omitted, the first write on a
\* new object included.
C9_MeasureIsDraw ==
    lastWrite.target # "none" =>
        /\ Written
        /\ lastWrite.measureFont = lastWrite.drawFont
        /\ lastWrite.drawFont = IF lastWrite.font_size # NoSize
                                THEN lastWrite.font_size ELSE 30

\* C10: a write call without a text box uses the whole target raster,
\* ((0,0),(width,height)), as the box.
C10_DefaultBox ==
    (lastWrite.target # "none" /\ lastWrite.textbox_pos = NoBox) =>
        lastWrite.box = <<<<0, 0>>, <<Target.w, Target.h>>>>

----------------------------------------------------------------------------
(* Background construction, resize, serialization *)

\* C11: a Background built from a base image succeeds for every choice of
\* optional width / height: a dimension that is given is the canvas's, a
\* missing one is the base image's, and width / height are the image's size.
C11_BackgroundSize ==
    last.op = "Background" /\ out.bg # NoBuf =>
        /\ out.raised = ""
        /\ width = heap[image].w
        /\ height = heap[image].h
        /\ width = IF out.width # NoDim THEN out.width ELSE heap[out.bg].w
        /\ height = IF out.height # NoDim THEN out.height ELSE heap[out.bg].h

\* round(num / den), Python's round of the quotient
Round(num, den) ==
    LET q == num \div den
        r == num % den
    IN IF 2 * r < den THEN q
       ELSE IF 2 * r > den THEN q + 1
       ELSE IF q % 2 = 0 THEN q ELSE q + 1

\* C12: resize(width) on a built image of size (ow, oh) leaves a final image
\* of width `width` and height round(width * oh / ow).
C12_ResizeRound ==
    last.op = "resize" /\ out.ow >= 1 =>
        /\ out.raised = ""
        /\ heap[final].w = out.width
        /\ heap[final].h = Round(out.width * out.oh, out.ow)

\* C13: bytes() before any build yields an error outcome, and every
\* respond() that receives it reports a failure instead of encoding it.
C13_RejectUnbuilt ==
    last.op = "bytes" /\ final = NoBuf =>
        /\ out.value.type = "Exception"
        /\ \A card \in BaseImageCards :
             LET r == RespondEncode(card, out.value)
             IN r.raised = "" /\ r.ret.type = "Exception"

----------------------------------------------------------------------------
(* Render requests *)

AllFetched(f) == \A k \in DOMAIN f.fetched : f.fetched[k] = "ok"

\* C14: when a local asset load fails during construction (and every fetch
\* succeeds), respond() returns the object's non-null error and neither
\* preset() nor build() has run.
C14_LoadErrorCarried ==
    \A r \in Requests :
        LET f == frames[r]
        IN f.pc = "done" /\ f.fail # "none" /\ AllFetched(f) =>
              /\ f.result.kind = "error"
              /\ f.result.error # NoError
              /\ cards[f.self].error = f.result.error
              /\ cards[f.self].components = <<>>
              /\ cards[f.self].overlays = <<>>

\* the fetches of a request that are player-icon fetches, by position
IconFetches(f) ==
    {k \in DOMAIN f.fetched : ~(f.card = "battle_log" /\ k = 1)}

\* the icon attribute the k-th fetch fills
IconOf(o, f, k) ==
    LET i == IF f.card = "battle_log" THEN k - 1 ELSE k
    IN IF i = 1 THEN o.pi1 ELSE o.pi2

\* C15: a failed icon fetch yields the fallback raster and raises nothing,
\* and the render still proceeds to preset() and build().
C15_IconFallback ==
    \A r \in Requests :
        LET f == frames[r]
            o == cards[f.self]
        IN f.pc # "idle" =>
             /\ \A k \in IconFetches(f) :
                    f.fetched[k] # "ok" => IconOf(o, f, k) = "fallback"
             /\ ( /\ f.pc = "done"
                  /\ f.fail = "none"
                  /\ (f.card = "battle_log" => f.fetched[1] = "ok")
                  => o.overlays # <<>> )

RECURSIVE Replay(_, _)
Replay(st, xs) ==
    IF xs = <<>> THEN st
    ELSE Replay(Resume(st.o, st.f, Head(xs)), Tail(xs))

\* the result of a request run alone on the same inputs
Solo(f) == Replay(Begin(f.card, f.fail, f.logs, f.self), f.fetched).f.result

\* C16: a step of one request changes nothing of the card of another
\* request, and a finished request has the result of running alone.
C16_Independent ==
    [][\A r \in Requests :
          frames'[r] # frames[r] =>
              /\ \A q \in Requests \ {r} :
                    /\ frames'[q] = frames[q]
                    /\ frames[q].self # 0 =>
                          cards'[frames[q].self] = cards[frames[q].self]
              /\ frames'[r].pc = "done" => frames'[r].result = Solo(frames'[r])]_vars

\* both requests ran to a rendered card, and the steps of one fell between
\* the steps of the other
C16_Witness ==
    /\ \A r \in Requests :
          /\ frames[r].pc = "done"
          /\ frames[r].result.kind = "data"
          /\ frames[r].overlap
    /\ frames[1].card = "battle_log"
    /\ frames[2].card = "profile"

PlayerIcons == {"icon1", "icon2", "winner_icon", "eliminated_icon"}

\* C19: in every list handed to the canvas the VS badge comes after the
\* player icons of its card / panel.
C19_BadgeAfterIcons ==
    \A i \in Requests :
        LET ovs == cards[i].overlays
        IN \A a, b \in DOMAIN ovs :
              /\ ovs[a].name = "vs"
              /\ ovs[b].name \in PlayerIcons
              /\ ovs[a].panel = ovs[b].panel
              => b < a

----------------------------------------------------------------------------
(* Component buffers *)

\* the step is a completed write or a set_dimensions on Component c
Touches(c) ==
    \/ /\ lastWrite' # lastWrite
       /\ lastWrite'.target = "component"
       /\ lastWrite'.who = c
       /\ lastWrite'.done
    \/ /\ last' # last
       /\ last'.op = "set_dimensions"
       /\ last'.who = c

\* C17: a write or set_dimensions on a Component changes neither an asset
\* raster nor the buffer of any other Component, the one it was built from
\* and the ones built from it or from the same source included.
C17_OwnBuffer ==
    [][\A c \in DOMAIN comps :
          Touches(c) =>
              /\ \A s \in 1 .. UnusedKeyId : heap'[s] = heap[s]
              /\ \A d \in DOMAIN comps \ {c} :
                    heap'[comps'[d].img] = heap[comps[d].img]]_vars

\* two Components built from the same asset raster; the first has been
\* written on, the second and the asset are as they were
C17_Witness ==
    /\ Len(comps) = 2
    /\ lastWrite.done /\ lastWrite.target = "component" /\ lastWrite.who = 1
    /\ heap[comps[1].img].ink = 1
    /\ comps[1].img # comps[2].img
    /\ heap[comps[2].img] = Sources[1]
    /\ heap[1] = Sources[1]

\* C18: set_dimensions(width, height) leaves the Component with exactly that
\* width and height and with the x, y and name it had.
C18_SetDimensions ==
    [][\A c \in DOMAIN comps :
          (last' # last /\ last'.op = "set_dimensions" /\ last'.who = c) =>
              /\ heap'[comps'[c].img].w = last'.arg
              /\ heap'[comps'[c].img].h = last'.other
              /\ comps'[c].x = comps[c].x
              /\ comps'[c].y = comps[c].y
              /\ comps'[c].name = comps[c].name]_vars

\* a Component of width 2 centered in a parent of width 4 (x = 1) and then
\* resized to width 3 keeps x = 1, where centering would give 0
C18_Witness ==
    /\ last.op = "set_dimensions"
    /\ Width(comps[last.who]) = 3
    /\ comps[last.who].x = 1
    /\ CenterOffset(4, 3) = 0

\* C20: has_transparency() is true exactly for a palette buffer whose
\* transparency index some pixel has and for an RGBA buffer with an alpha
\* sample below 255.
C20_Transparency ==
    last.op = "has_transparency" =>
        LET buf == heap[comps[last.who].img]
            used == /\ buf.mode = "P"
                    /\ buf.transparency # NoTransparency
                    /\ \E p \in DOMAIN buf.px : buf.px[p][1] = buf.transparency
            alpha == /\ buf.mode = "RGBA"
                     /\ \E p \in DOMAIN buf.px : buf.px[p][2] < 255
        IN (last.arg = 1) <=> (used \/ alpha)

----------------------------------------------------------------------------
(* Stroke width *)

\* C21: both writes draw with stroke width 3 when a stroke colour is given
\* and 0 when none is, and they agree on the width for every stroke argument.
C21_StrokeWidth ==
    Written =>
        /\ lastWrite.stroke = "black" => lastWrite.strokeWidth = 3
        /\ lastWrite.stroke = "None" => lastWrite.strokeWidth = 0
        /\ ComponentStrokeWidth(lastWrite.stroke) = BaseStrokeWidth(lastWrite.stroke)

----------------------------------------------------------------------------
(* Battle-log sheet *)

\* the card of request r
CardOf(r) == cards[frames[r].self]

\* request r is a battle log whose preset has run
Sheeted(r) ==
    /\ frames[r].card = "battle_log"
    /\ frames[r].pc = "done"
    /\ CardOf(r).card = "battle_log"
    /\ Len(CardOf(r).panels) = Len(frames[r].logs)

\* C22: every panel of a battle-log sheet lies inside the canvas the sheet
\* was built with, and the panels do not overlap: panel i ends at or before
\* panel i + 1 starts and the last one ends at or before the canvas height.
C22_PanelsInside ==
    \A r \in Requests :
        Sheeted(r) =>
            LET o == CardOf(r)
            IN /\ \A i \in 1 .. Len(o.panels) :
                      /\ o.panels[i].x >= 0
                      /\ o.panels[i].x + PanelWidth <= o.width
                      /\ o.panels[i].y >= 0
                      /\ o.panels[i].y + PanelHeight <= o.height
               /\ \A i \in 1 .. Len(o.panels) - 1 :
                      o.panels[i].y + PanelHeight <= o.panels[i + 1].y

\* C24: every panel of a battle-log sheet shows the players of its own
\* entry: the icons and names are those of the entry's winner and
\* eliminated player, and a decided round's caption names its winner.
C24_OwnPlayers ==
    \A r \in Requests :
        Sheeted(r) =>
            \A i \in 1 .. Len(CardOf(r).panels) :
                LET p == CardOf(r).panels[i]
                    log == frames[r].logs[i]
                IN /\ p.winner_name = log.winner
                   /\ p.winner_icon = log.winner
                   /\ p.eliminated_name = log.eliminated
                   /\ p.eliminated_icon = log.eliminated
                   /\ p.caption = IF log.result = "null" THEN <<"Draw">>
                                  ELSE <<log.winner, "won this round">>

----------------------------------------------------------------------------
(* Building once *)

\* no Component is in the list twice
Once(cs) == \A i, j \in 1 .. Len(cs) : cs[i] = cs[j] => i = j

\* the BaseImage has been built and preset has added nothing since
Built == final # NoBuf /\ components = <<>>

\* C23: build() leaves components empty and final set, adds every waiting
\* component to the overlays once, and a build() of a built BaseImage with
\* no preset in between leaves the overlays as they were, free of
\* duplicates, and yields the same composite.
C23_BuildOnce ==
    [][last'.op = "build" =>
          /\ components' = <<>>
          /\ final' # NoBuf
          /\ overlays' = overlays \o components
          /\ Once(overlays')
          /\ Built => /\ overlays' = overlays
                      /\ heap'[final'] = heap[final]]_vars

\* a BaseImage of two overlays, one of them translucent, built twice in a row
C23_Witness ==
    /\ last.op = "build"
    /\ last.rep
    /\ Built
    /\ Len(overlays) >= 2
    /\ \E i \in 1 .. Len(overlays) : HasTransparency(heap[comps[overlays[i]].img])
    /\ heap[final] # heap[image]

====
